---- MODULE Spec2Model ----
(***************************************************************************)
(* request-pure: the request / redirect / decoding pipeline of             *)
(* src/src/Request.ts (RequestClient.send and getRequestOptions).          *)
(*                                                                         *)
(* One RequestClient instance is modelled.  Every invocation of send()     *)
(* (the caller's and the recursive ones of the redirect branch) is one     *)
(* entry of `calls`: the values its closure captured, the state of the     *)
(* NodeJS client request it created, the response event delivered to it    *)
(* and the promise it returned.                                            *)
(***************************************************************************)
EXTENDS Integers, Sequences, FiniteSets, TLC

\* ---------------------------------------------------------------- bounds
\* Transport requests the environment lets one pipeline open: the server
\* stops answering with followed redirects once this many were opened.
MaxRequests == 3
\* Largest maxRedirectCount a caller configures in the model.
MaxRedirectLimit == 1
\* Chunks of a response body the transport delivers in the model.
MaxChunks == 2

\* ------------------------------------------------------------ JS values
\* JS null (absent body, Headers.get of a missing header).
Null == "null"

GET == "GET"
HEAD == "HEAD"
POST == "POST"

CONTENT_LENGTH == "content-length"
CONTENT_TYPE == "content-type"
ACCEPT == "accept"
ACCEPT_ENCODING == "accept-encoding"
CONNECTION == "connection"

\* ------------------------------------------------------------------ URLs
\* A parsed URL: host, path and the entries of its query string as they
\* are serialised (scheme http);
\* hosts are "a" and "b", paths "/", "/x" and "/null".
NoURL == [host |-> "", path |-> "", search |-> <<>>]

\* Location header values a server sends: absent, a path-absolute reference
\* or an absolute URL.
NoLocation == [kind |-> "none", host |-> "", path |-> ""]
Locations ==
  { NoLocation,
    [kind |-> "path", host |-> "", path |-> "/x"],
    [kind |-> "url", host |-> "b", path |-> "/"] }

\* new URL(String(headers.get('location')), parsedURL.toString()).
\* String(null) is the relative reference "null": it replaces the last path
\* segment of the base (every path of the model has one segment).
ResolveURL(location, base) ==
  CASE location.kind = "url" ->
         [host |-> location.host, path |-> location.path, search |-> <<>>]
    [] location.kind = "path" ->
         [host |-> base.host, path |-> location.path, search |-> <<>>]
    [] OTHER -> [host |-> base.host, path |-> "/null", search |-> <<>>]

\* --------------------------------------------------------------- Headers
\* The Header Store: a map from lower-case names to values.
HeadersHas(h, name) == name \in DOMAIN h

HeadersSet(h, name, value) ==
  [n \in (DOMAIN h) \cup {name} |-> IF n = name THEN value ELSE h[n]]

HeadersDelete(h, name) == [n \in (DOMAIN h) \ {name} |-> h[n]]

HeadersRaw(h) == h

\* Header names the model uses, in the letter cases callers write them.
toLowerCase(name) ==
  CASE name \in {"Content-Length", "CONTENT-LENGTH"} -> "content-length"
    [] name \in {"Content-Type", "CONTENT-TYPE"} -> "content-type"
    [] name \in {"Accept", "ACCEPT"} -> "accept"
    [] name \in {"Accept-Encoding", "ACCEPT-ENCODING"} -> "accept-encoding"
    [] name \in {"Connection", "CONNECTION"} -> "connection"
    [] OTHER -> name

\* new Headers(init): the names are folded to lower case.
HeadersNew(init) ==
  [n \in {toLowerCase(k) : k \in DOMAIN init} |->
     init[CHOOSE k \in DOMAIN init : toLowerCase(k) = n]]

\* COMPRESSION_TYPE.BR, .GZIP, .DEFLATE
COMPRESSION_BR == "br"
COMPRESSION_GZIP == "gzip"
COMPRESSION_DEFLATE == "deflate"

\* ----------------------------------------------------------------- utils
isRedirect(code) ==
  code = 301 \/ code = 302 \/ code = 303 \/ code = 307 \/ code = 308

extractContentType(body) ==
  IF body \in {"data", ""} THEN "text/plain;charset=UTF-8" ELSE Null

\* ---------------------------------------------------------- query strings
\* Keys and values are sequences of characters; a query is the sequence of
\* the [key, value] entries of the caller's object.
AlphaNum == {"a", "b", "x", "y", "0", "1", "2", "3", "5", "6", "B", "D"}

\* %XX of a character that is not left as it is.
PercentCode(c) ==
  CASE c = " " -> <<"%", "2", "0">>
    [] c = "%" -> <<"%", "2", "5">>
    [] c = "&" -> <<"%", "2", "6">>
    [] c = "+" -> <<"%", "2", "B">>
    [] c = "=" -> <<"%", "3", "D">>
    [] OTHER -> <<c>>

\* encodeURIComponent(str)
RECURSIVE encodeURIComponent(_)
encodeURIComponent(str) ==
  IF str = <<>> THEN <<>>
  ELSE (IF Head(str) \in AlphaNum THEN <<Head(str)>> ELSE PercentCode(Head(str)))
       \o encodeURIComponent(Tail(str))

\* The application/x-www-form-urlencoded serialiser URLSearchParams applies
\* to every name and value when the URL's query string is written.
RECURSIVE urlencoded(_)
urlencoded(str) ==
  IF str = <<>> THEN <<>>
  ELSE (CASE Head(str) \in AlphaNum -> <<Head(str)>>
          [] Head(str) = " " -> <<"+">>
          [] OTHER -> PercentCode(Head(str)))
       \o urlencoded(Tail(str))

\* searchParams.set(name, value): the entry of that name is replaced, or a
\* new entry is added at the end.
SearchParamsSet(search, name, value) ==
  LET entry == [name |-> urlencoded(name), value |-> urlencoded(value)] IN
  IF \E i \in 1..Len(search) : search[i].name = entry.name
  THEN [i \in 1..Len(search) |->
          IF search[i].name = entry.name THEN entry ELSE search[i]]
  ELSE Append(search, entry)

\* for (const [queryKey, queryValue] of Object.entries(query))
\*   searchParams.set(encodeURIComponent(queryKey),
\*                    encodeURIComponent(queryValue))
RECURSIVE MergeQuery(_, _)
MergeQuery(url, query) ==
  IF query = <<>> THEN url
  ELSE MergeQuery(
         [url EXCEPT !.search =
            SearchParamsSet(@, encodeURIComponent(Head(query).key),
                            encodeURIComponent(Head(query).value))],
         Tail(query))

\* ------------------------------------------------------ getRequestOptions
toUpperCase(m) ==
  CASE m \in {"get", "Get"} -> "GET"
    [] m \in {"head", "hEaD"} -> "HEAD"
    [] m = "post" -> "POST"
    [] OTHER -> m

\* Mutant of BodyNotAllowed: the method is compared as the caller wrote it.
BodyNotAllowed_AsWritten(co) ==
  co.body # Null /\ co.method \in {GET, HEAD}

\* if (body !== null && (method === GET || method === HEAD)) throw
BodyNotAllowed(co) ==
  co.body # Null /\ toUpperCase(co.method) \in {GET, HEAD}

\* SUPPORTED_COMPRESSIONS
SUPPORTED_COMPRESSIONS ==
  <<COMPRESSION_GZIP, COMPRESSION_DEFLATE, COMPRESSION_BR>>

\* Array.prototype.join
RECURSIVE join(_, _)
join(list, separator) ==
  IF list = <<>> THEN ""
  ELSE IF Len(list) = 1 THEN list[1]
  ELSE list[1] \o separator \o join(Tail(list), separator)

\* Mutant of ResolveHeaders: accept-encoding is set only when the caller
\* gave none.
ResolveHeaders_KeepsUserEncoding(co) ==
  LET h0 == HeadersDelete(HeadersNew(co.headers), CONTENT_LENGTH)
      h1 == IF HeadersHas(h0, ACCEPT_ENCODING) THEN h0
            ELSE HeadersSet(h0, ACCEPT_ENCODING,
                            join(SUPPORTED_COMPRESSIONS, ","))
      h2 == IF HeadersHas(h1, ACCEPT) THEN h1 ELSE HeadersSet(h1, ACCEPT, "*/*")
      h3 == IF HeadersHas(h2, CONNECTION) THEN h2
            ELSE HeadersSet(h2, CONNECTION, "close")
      h4 == IF co.body \notin {Null, ""} /\ ~HeadersHas(h3, CONTENT_TYPE)
               /\ extractContentType(co.body) # Null
            THEN HeadersSet(h3, CONTENT_TYPE, extractContentType(co.body))
            ELSE h3
  IN h4

ResolveHeaders(co) ==
  LET h0 == HeadersDelete(HeadersNew(co.headers), CONTENT_LENGTH)
      h1 == HeadersSet(h0, ACCEPT_ENCODING, join(SUPPORTED_COMPRESSIONS, ","))
      h2 == IF HeadersHas(h1, ACCEPT) THEN h1 ELSE HeadersSet(h1, ACCEPT, "*/*")
      h3 == IF HeadersHas(h2, CONNECTION) THEN h2
            ELSE HeadersSet(h2, CONNECTION, "close")
      \* `body &&`: null and the empty string are both falsy
      h4 == IF co.body \notin {Null, ""} /\ ~HeadersHas(h3, CONTENT_TYPE)
               /\ extractContentType(co.body) # Null
            THEN HeadersSet(h3, CONTENT_TYPE, extractContentType(co.body))
            ELSE h3
  IN h4

getRequestOptions(co) ==
  [ method |-> toUpperCase(co.method),
    body |-> co.body,
    requestURL |-> co.requestURL,
    query |-> co.query,
    parsedURL |-> MergeQuery(co.requestURL, co.query),
    headers |-> ResolveHeaders(co),
    followRedirect |-> co.followRedirect,
    maxRedirectCount |-> co.maxRedirectCount,
    timeout |-> co.timeout ]

\* Objects are told apart by the expression that made them. The caller's
\* object is "constructorOptions", its headers record
\* "constructorOptions.headers".
\* Mutant of Spread: the object itself is handed on.
Spread_Same(object) == object

\* { ...DEFAULT_OPTIONS, ...constructorOptions }, { ...options, method,
\* parsedURL, headers }: a new object with the properties of the old one.
Spread(object) == "{..." \o object \o "}"

\* Mutant of HeadersObject: the collection keeps its initialiser as store.
HeadersObject_Same(init) == init

\* new Headers(init): a new collection filled from the initialiser.
HeadersObject(init) == "new Headers(" \o init \o ")"

\* The object getRequestOptions returns, which becomes this.options, and
\* the object in its headers property.
ThisOptions == Spread(Spread("constructorOptions"))
ThisOptionsHeaders == HeadersObject("constructorOptions.headers")

\* What the caller's object holds once this.options holds o: a write to an
\* object is seen by every holder of it. Nothing is written when the
\* resolver threw.
Seen(co, o) ==
  IF "parsedURL" \notin DOMAIN o THEN co
  ELSE IF ThisOptions = "constructorOptions" THEN o
  ELSE IF ThisOptionsHeaders = "constructorOptions.headers"
  THEN [co EXCEPT !.headers = o.headers]
  ELSE co

\* What callers hand to `new Request(...)`.
UserMethods == {"GET", "HEAD", "post", "PUT"}
UserBodies == {Null, "data"}
UserHeaders == { [n \in {CONTENT_LENGTH} |-> "4"] }
\* timeout in ms; 0 disables it
UserTimeouts == {0, 1000}

ConstructorOptions ==
  [ method : UserMethods,
    body : UserBodies,
    headers : UserHeaders,
    requestURL : {[host |-> "a", path |-> "/", search |-> <<>>]},
    query : {<<>>},
    followRedirect : BOOLEAN,
    maxRedirectCount : 0..MaxRedirectLimit,
    timeout : UserTimeouts ]

\* `new URL(requestURL)` throws for a string without a host.
URLInvalid(requestURL) == requestURL.host = ""

\* new TypeError('Request with GET/HEAD method cannot have body')
BodyTypeError == [error |-> "Request with GET/HEAD method cannot have body"]
\* the TypeError of new URL(requestURL)
URLTypeError == [error |-> "Invalid URL"]

\* new Request(constructorOptions): the options of the new instance's
\* client, or the error getRequestOptions threw.
NewRequest(co) ==
  IF BodyNotAllowed(co) THEN BodyTypeError
  ELSE IF URLInvalid(co.requestURL) THEN URLTypeError
  ELSE getRequestOptions(co)

\* ------------------------------------------------------------- responses
Statuses == {200, 301, 302, 303, 307, 308}
Codings == {Null, "gzip", "deflate"}

NoRes == [statusCode |-> 0, location |-> NoLocation, codings |-> Null]
\* Responses the server sends: a redirect status with any Location and no
\* content-encoding, or a final status with any content-encoding.
Responses ==
  [statusCode : {s \in Statuses : s >= 300}, location : Locations,
   codings : {Null}]
  \cup
  [statusCode : {s \in Statuses : s < 300}, location : {NoLocation},
   codings : Codings]

\* new ResponseImpl(responseBody, {requestURL, statusCode, headers, size})
NoResp ==
  [requestURL |-> NoURL, statusCode |-> 0, location |-> NoLocation,
   codings |-> Null, transform |-> "none"]

ResponseImpl(transform, requestURL, res) ==
  [requestURL |-> requestURL, statusCode |-> res.statusCode,
   location |-> res.location, codings |-> res.codings,
   transform |-> transform]

\* ---------------------------------------------------------------- errors
NoErr == [kind |-> "none", at |-> NoURL]
\* new Error(`Maximum redirect reached at: ${requestURL}`)
RedirectLimitError(requestURL) == [kind |-> "limit", at |-> requestURL]
\* new Error(`Redirect location header missing at: ${requestURL}`)
MissingLocationError(requestURL) == [kind |-> "location", at |-> requestURL]
\* the error object of the client request's 'error' event
TransportError == [kind |-> "transport", at |-> NoURL]
\* new Error(`NodeJS request timeout in ${timeout} ms`)
TimeoutError == [kind |-> "timeout", at |-> NoURL]
\* new Error('NodeJS request was aborted by the server')
AbortError == [kind |-> "abort", at |-> NoURL]

\* -------------------------------------------------------------- promises
\* new Promise: pending; resolve(value) fulfils it, resolve(promise) makes
\* it follow that promise, reject(reason) rejects it; each only while the
\* promise is still pending.
Pending == [st |-> "pending", err |-> NoErr, resp |-> NoResp, next |-> 0]

resolve(p, resp) ==
  IF p.st = "pending" THEN [p EXCEPT !.st = "fulfilled", !.resp = resp] ELSE p

\* Mutant of resolveWith: resolving with a promise leaves the promise
\* open to a later resolve.
resolveWith_Open(p, j) == p

resolveWith(p, j) ==
  IF p.st = "pending" THEN [p EXCEPT !.st = "follows", !.next = j] ELSE p

\* Mutant of reject: the promise is left as it was.
reject_Never(p, e) == p

reject(p, e) ==
  IF p.st = "pending" THEN [p EXCEPT !.st = "rejected", !.err = e] ELSE p

\* ------------------------------------------------- the response handler
\* Mutant of ShouldFollow: the followRedirect flag is not consulted.
ShouldFollow_IgnoresFlag(statusCode, followRedirect) ==
  isRedirect(statusCode)

\* if (isRedirect(statusCode) && followRedirect)
ShouldFollow(statusCode, followRedirect) ==
  isRedirect(statusCode) /\ followRedirect

\* if (maxRedirectCount && this.redirectCount >= maxRedirectCount)
LimitReached(maxRedirectCount, count) ==
  maxRedirectCount # 0 /\ count >= maxRedirectCount

\* if (!headers.get(HEADER_MAP.LOCATION))
LocationMissing(res) == res.location = NoLocation

\* Mutant of ShouldRewrite: the 303 clause is lost.
ShouldRewrite_No303(statusCode, method) ==
  (statusCode = 301 \/ statusCode = 302) /\ method = POST

\* Mutant of ShouldRewrite: 302 is lost from the POST clause.
ShouldRewrite_No302(statusCode, method) ==
  \/ statusCode = 303
  \/ statusCode = 301 /\ method = POST

\* Mutant of ShouldRewrite: the status test of the POST clause is lost.
ShouldRewrite_AnyPost(statusCode, method) ==
  \/ statusCode = 303
  \/ method = POST

\* statusCode === 303 ||
\* ((statusCode === 301 || statusCode === 302) && method === POST)
ShouldRewrite(statusCode, method) ==
  \/ statusCode = 303
  \/ (statusCode = 301 \/ statusCode = 302) /\ method = POST

\* this.options.method = GET; this.options.body = null;
\* this.options.headers.delete('content-length')
Rewrite(o) ==
  [o EXCEPT !.method = GET, !.body = Null,
            !.headers = HeadersDelete(@, CONTENT_LENGTH)]

\* Mutant of RedirectBase: Location is resolved against the URL the caller
\* gave.
RedirectBase_RequestURL(requestURL, parsedURL) == requestURL

\* The base of new URL(location, parsedURL.toString()): the parsedURL this
\* send() read from this.options when it started.
RedirectBase(requestURL, parsedURL) == parsedURL

\* Mutant of NextRedirectCount: the counter is bumped twice per hop.
NextRedirectCount_Twice(count) == count + 2

\* this.redirectCount += 1
NextRedirectCount(count) == count + 1

\* `x-${COMPRESSION_TYPE.GZIP}`, `x-${COMPRESSION_TYPE.DEFLATE}`
XAlias(token) == "x-" \o token

\* Mutant of ShouldDecode: the 204 test is lost.
ShouldDecode_Ignores204(method, codings, statusCode) ==
  /\ method # HEAD
  /\ codings # Null
  /\ statusCode # 304

\* method !== HEAD && codings !== null && statusCode !== 204 && !== 304
ShouldDecode(method, codings, statusCode) ==
  /\ method # HEAD
  /\ codings # Null
  /\ statusCode # 204
  /\ statusCode # 304

\* the switch on codings: deflate / x-deflate wait for the first chunk
NeedsSniff(method, codings, statusCode) ==
  /\ ShouldDecode(method, codings, statusCode)
  /\ codings \in {COMPRESSION_DEFLATE, XAlias(COMPRESSION_DEFLATE)}

\* Mutant of Transform: the x-gzip case label is lost.
Transform_NoAlias(method, codings, statusCode) ==
  IF ~ShouldDecode(method, codings, statusCode) THEN "identity"
  ELSE CASE codings = COMPRESSION_BR -> "brotli"
         [] codings = COMPRESSION_GZIP -> "gunzip"
         [] OTHER -> "identity"

\* the transform the switch wires after the first PassThrough
Transform(method, codings, statusCode) ==
  IF ~ShouldDecode(method, codings, statusCode) THEN "identity"
  ELSE CASE codings = COMPRESSION_BR -> "brotli"
         [] codings \in {COMPRESSION_GZIP, XAlias(COMPRESSION_GZIP)} -> "gunzip"
         [] OTHER -> "identity"

\* Mutant of LowNibble: the high nibble is taken.
LowNibble_High(byte) == byte \div 16

\* chunk[0] & 0x0f
LowNibble(byte) == byte % 16

\* (chunk[0] & 0x0f) === 0x08
SniffTransform(lowNibble) == IF lowNibble = 8 THEN "inflate" ELSE "inflateRaw"

\* Mutant of TimeoutArmed: the deadline is armed whatever the option says.
TimeoutArmed_Always(timeout) == TRUE

\* if (timeout) clientRequest.setTimeout(timeout, ...)
TimeoutArmed(timeout) == timeout # 0

\* ----------------------------------------------------------------- state
VARIABLES
  constructorOptions, \* the object the caller passed to `new Request`
  options,        \* RequestClient.options (the resolved RequestOptions)
  redirectCount,  \* RequestClient.redirectCount
  calls           \* one record per invocation of RequestClient.send

vars == <<constructorOptions, options, redirectCount, calls>>

\* One invocation of send(): the captured method / body / parsedURL, the
\* headers handed to the transport by createRequest, the client request
\* (conn), how far its response has got (stage), the response delivered
\* to it (res, the IncomingMessage the pump holds) and the returned promise.
\*   conn : "open" | "destroyed" (clientRequest.destroy()) |
\*          "closed" (response fully read, connection released)
\*   stage: "awaiting" | "response" (event delivered, handler not run) |
\*          "sniff" (handler returned, first deflate chunk awaited) |
\*          "responded"
\* Once the client request is destroyed or closed no callback of the call
\* runs again: the record then keeps only the request's headers, conn,
\* stage and the promise.
\*   timer: a timeout callback is armed on the client request
\*   cancelled: the consumer raised 'cancel-request' on the body stream of
\*          the Response this call resolved with
\*   wire : the chunks `res` has emitted so far
\*   passThrough: the chunks buffered in the first PassThrough
\*   piped: the chunks that left the first PassThrough, to the transform
\*          piped after it or to the reader of the Response
send(o) ==
  [ method |-> o.method, body |-> o.body, parsedURL |-> o.parsedURL,
    headers |-> HeadersRaw(o.headers),
    conn |-> "open", stage |-> "awaiting", res |-> NoRes,
    promise |-> Pending,
    timer |-> TimeoutArmed(o.timeout), cancelled |-> FALSE,
    wire |-> <<>>, passThrough |-> <<>>, piped |-> <<>> ]

\* Mutant of ClientRequestHeaders: the request keeps the object it was
\* given.
ClientRequestHeaders_Same(given, h) == given

\* adapterForHttp(protocol).request(options): the ClientRequest of call h
\* copies options.headers into a header store of its own.
ClientRequestHeaders(given, h) == <<"ClientRequest.headers", h>>

\* The store of this.options.headers, which raw() may hand out as it is.
HeadersStore == <<"this.options.headers", 0>>

\* The header collection attached to the request of call h.
RequestHeadersObject(h) == ClientRequestHeaders(HeadersStore, h)

\* this.options.headers was written: every request that holds its store
\* has the new headers.
HeadersWritten(cs, headers) ==
  [k \in 1..Len(cs) |->
     IF RequestHeadersObject(k) = HeadersStore
     THEN [cs[k] EXCEPT !.headers = HeadersRaw(headers)]
     ELSE cs[k]]

Released(c, conn) ==
  [c EXCEPT !.conn = conn, !.method = "", !.body = Null,
            !.parsedURL = NoURL, !.res = NoRes,
            !.wire = <<>>, !.passThrough = <<>>, !.piped = <<>>]

\* Mutant of cancelRequest: one request handle for the whole client, which
\* holds the newest request.
cancelRequest_Newest(cs, h) ==
  [cs EXCEPT ![Len(cs)] = Released(@, "destroyed")]

\* cancelRequest of call h: clientRequest.destroy() on the clientRequest
\* this send() created.
cancelRequest(cs, h) ==
  [cs EXCEPT ![h] = Released(@, "destroyed")]

\* The 'response' event and its handler are one turn of the event loop:
\* nothing else runs between the delivery and the handler.
InTurn == \E k \in 1..Len(calls) : calls[k].stage = "response"

\* `new Request(constructorOptions)` of a caller that sets no timeout.
Init ==
  /\ \E co \in {c \in ConstructorOptions :
                  ~BodyNotAllowed(c) /\ c.timeout = 0} :
       /\ options = getRequestOptions(co)
       /\ constructorOptions = Seen(co, options)
  /\ redirectCount = 0
  /\ calls = <<>>

\* Request.send(): the caller starts the pipeline.
Send ==
  /\ calls = <<>>
  /\ calls' = <<send(options)>>
  /\ UNCHANGED <<constructorOptions, options, redirectCount>>

\* Mutant of ServerRespond: a 'response' event is delivered again to a
\* request that already had one.
ServerRespond_Again(h) ==
  /\ ~InTurn
  /\ calls[h].conn = "open"
  /\ calls[h].stage \in {"awaiting", "responded"}
  /\ \E res \in Responses :
       /\ Len(calls) >= MaxRequests => ~isRedirect(res.statusCode)
       /\ calls' = [calls EXCEPT ![h].res = res, ![h].stage = "response"]
  /\ UNCHANGED <<constructorOptions, options, redirectCount>>

\* The transport delivers the 'response' event of call h.
ServerRespond(h) ==
  /\ ~InTurn
  /\ calls[h].conn = "open"
  /\ calls[h].stage = "awaiting"
  /\ \E res \in Responses :
       /\ Len(calls) >= MaxRequests => ~isRedirect(res.statusCode)
       /\ calls' = [calls EXCEPT ![h].res = res, ![h].stage = "response"]
  /\ UNCHANGED <<constructorOptions, options, redirectCount>>

\* clientRequest.on('response', (res) => { ... }) of call h.
OnResponse(h) ==
  LET c == calls[h]
      res == c.res
      sniff == NeedsSniff(c.method, res.codings, res.statusCode)
      response == ResponseImpl(Transform(c.method, res.codings, res.statusCode),
                               options.requestURL, res)
  IN
  /\ c.stage = "response"
  /\ IF ShouldFollow(res.statusCode, options.followRedirect)
     THEN
       LET limit == LimitReached(options.maxRedirectCount, redirectCount)
           missing == LocationMissing(res)
           \* onRejected: cancelRequest(); reject(reason)
           p1 == IF limit
                 THEN reject(c.promise, RedirectLimitError(options.requestURL))
                 ELSE c.promise
           p2 == IF missing
                 THEN reject(p1, MissingLocationError(options.requestURL))
                 ELSE p1
           o1 == IF ShouldRewrite(res.statusCode, c.method)
                 THEN Rewrite(options) ELSE options
           o2 == [o1 EXCEPT !.parsedURL = ResolveURL(res.location,
                    RedirectBase(options.requestURL, c.parsedURL))]
           \* onFulfilled(this.send())
           p3 == resolveWith(p2, Len(calls) + 1)
           \* the handler goes on past the redirect branch
           p4 == IF sniff THEN p3 ELSE resolve(p3, response)
           c1 == [c EXCEPT !.stage = IF sniff THEN "sniff" ELSE "responded",
                           !.promise = p4]
       IN
       /\ options' = o2
       /\ constructorOptions' = Seen(constructorOptions, o2)
       /\ redirectCount' = NextRedirectCount(redirectCount)
       /\ calls' = Append(
            HeadersWritten(
              [calls EXCEPT ![h] = IF limit \/ missing
                                   THEN Released(c1, "destroyed") ELSE c1],
              o2.headers),
            send(o2))
     ELSE
       /\ calls' = [calls EXCEPT
            ![h].stage = IF sniff THEN "sniff" ELSE "responded",
            ![h].promise = IF sniff THEN c.promise
                           ELSE resolve(c.promise, response)]
       /\ UNCHANGED <<constructorOptions, options, redirectCount>>

\* .once('data', (chunk) => { ... }) of the deflate branch of call h.
OnFirstChunk(h) ==
  LET c == calls[h] IN
  /\ ~InTurn
  /\ c.conn = "open"
  /\ c.stage = "sniff"
  /\ \E lowNibble \in {8, 3} :
       calls' = [calls EXCEPT
         ![h].stage = "responded",
         ![h].promise = resolve(c.promise,
            ResponseImpl(SniffTransform(lowNibble), options.requestURL, c.res))]
  /\ UNCHANGED <<constructorOptions, options, redirectCount>>

\* clientRequest 'error' (or the pump callback with an error) on call h:
\* onRejected = cancelRequest(); reject(reason).
OnError(h) ==
  /\ ~InTurn
  /\ calls[h].conn = "open"
  /\ calls' = cancelRequest(
       [calls EXCEPT ![h].promise = reject(@, TransportError)], h)
  /\ UNCHANGED <<constructorOptions, options, redirectCount>>

\* The response of call h has been read to its end: with
\* `connection: close` the transport releases the connection.
OnEnd(h) ==
  /\ ~InTurn
  /\ calls[h].conn = "open"
  /\ calls[h].stage \in {"sniff", "responded"}
  /\ calls[h].passThrough = <<>>
  /\ calls' = [calls EXCEPT ![h] = Released(@, "closed")]
  /\ UNCHANGED <<constructorOptions, options, redirectCount>>

Next ==
  \/ Send
  \/ \E h \in 1..Len(calls) : ServerRespond(h)
  \/ \E h \in 1..Len(calls) : OnResponse(h)
  \/ \E h \in 1..Len(calls) : OnFirstChunk(h)
  \/ \E h \in 1..Len(calls) : OnError(h)
  \/ \E h \in 1..Len(calls) : OnEnd(h)

Spec == Init /\ [][Next]_vars

\* ------------------------------------------- timeout, abort and cancel
\* The timeout callback of call h: onRejected(new Error('... timeout ...')).
OnTimeout(h) ==
  /\ ~InTurn
  /\ calls[h].conn = "open"
  /\ calls[h].timer
  /\ calls' = cancelRequest(
       [calls EXCEPT ![h].promise = reject(@, TimeoutError)], h)
  /\ UNCHANGED <<constructorOptions, options, redirectCount>>

\* clientRequest 'abort' on call h: onRejected(new Error('... aborted ...')).
OnAbort(h) ==
  /\ ~InTurn
  /\ calls[h].conn = "open"
  /\ calls' = cancelRequest(
       [calls EXCEPT ![h].promise = reject(@, AbortError)], h)
  /\ UNCHANGED <<constructorOptions, options, redirectCount>>

\* The stream the 'cancel-request' listener is bound to is the first
\* PassThrough; the stream handed to ResponseImpl is that one only when
\* no decompression transform was piped after it.
ListenerOnBody(transform) == transform = "identity"

\* The consumer of the Response call h resolved with raises
\* 'cancel-request' on its body stream; cancelRequest runs if the listener
\* is on that stream.
OnCancel(h) ==
  LET c == calls[h] IN
  /\ ~InTurn
  /\ c.conn = "open"
  /\ c.promise.st = "fulfilled"
  /\ ~c.cancelled
  /\ calls' = [calls EXCEPT
       ![h] = IF ListenerOnBody(c.promise.resp.transform)
              THEN Released([c EXCEPT !.cancelled = TRUE], "destroyed")
              ELSE [c EXCEPT !.cancelled = TRUE]]
  /\ UNCHANGED <<constructorOptions, options, redirectCount>>

\* `new Request(constructorOptions)` for a GET, with or without a timeout.
FaultInit ==
  /\ \E co \in {c \in ConstructorOptions :
                  c.method = "GET" /\ c.body = Null} :
       /\ options = getRequestOptions(co)
       /\ constructorOptions = Seen(co, options)
  /\ redirectCount = 0
  /\ calls = <<>>

FaultNext ==
  \/ Send
  \/ \E h \in 1..Len(calls) : ServerRespond(h)
  \/ \E h \in 1..Len(calls) : OnResponse(h)
  \/ \E h \in 1..Len(calls) : OnFirstChunk(h)
  \/ \E h \in 1..Len(calls) : OnError(h)
  \/ \E h \in 1..Len(calls) : OnEnd(h)
  \/ \E h \in 1..Len(calls) : OnTimeout(h)
  \/ \E h \in 1..Len(calls) : OnAbort(h)
  \/ \E h \in 1..Len(calls) : OnCancel(h)

FaultSpec == FaultInit /\ [][FaultNext]_vars

\* ------------------------------------------------- the decoding pipeline
\* Content-Encoding values a server sends: absent, the tokens of the
\* switch, their x- aliases, tokens in another letter case, a token list
\* and a token the switch does not know.
DecodeCodings ==
  { Null, "gzip", "x-gzip", "br", "deflate", "x-deflate",
    "GZIP", "Br", "Deflate", "gzip, br", "identity" }

\* Final responses: any of these statuses with any Content-Encoding.
DecodeResponses ==
  [statusCode : {200, 204, 304}, location : {NoLocation},
   codings : DecodeCodings]

\* Body chunks as byte sequences.  The first chunk starts with a zlib
\* header (0x78 0x9c) or with raw deflate data (0x4b 0xcb); chunk n > 1 is
\* the single byte n.
NextChunks(n) ==
  IF n = 0 THEN { <<120, 156>>, <<75, 203>> } ELSE { <<n + 1>> }

\* The transport delivers the 'response' event of call h (any final
\* response).
ServerRespondFinal(h) ==
  /\ ~InTurn
  /\ calls[h].conn = "open"
  /\ calls[h].stage = "awaiting"
  /\ \E res \in DecodeResponses :
       calls' = [calls EXCEPT ![h].res = res, ![h].stage = "response"]
  /\ UNCHANGED <<constructorOptions, options, redirectCount>>

\* `res` emits a chunk.  pump(res, new PassThrough()) writes it to the
\* first PassThrough; in the deflate branch the second
\* pump(res, new PassThrough()) gets it too and its once('data') callback
\* picks the inflate variant from the first byte, pipes the first
\* PassThrough into it and resolves.
OnData(h) ==
  LET c == calls[h] IN
  /\ ~InTurn
  /\ c.conn = "open"
  /\ c.stage \in {"sniff", "responded"}
  /\ c.method # HEAD
  /\ Len(c.wire) < MaxChunks
  /\ \E chunk \in NextChunks(Len(c.wire)) :
       calls' = [calls EXCEPT
         ![h].wire = Append(@, chunk),
         ![h].passThrough = Append(@, chunk),
         ![h].stage = "responded",
         ![h].promise =
            IF c.stage = "sniff"
            THEN resolve(@, ResponseImpl(SniffTransform(LowNibble(chunk[1])),
                                         options.requestURL, c.res))
            ELSE @]
  /\ UNCHANGED <<constructorOptions, options, redirectCount>>

\* The first PassThrough hands its oldest chunk on: to the transform piped
\* after it, or to the reader of the Response.
OnPipe(h) ==
  LET c == calls[h] IN
  /\ ~InTurn
  /\ c.conn = "open"
  /\ c.stage = "responded"
  /\ c.passThrough # <<>>
  /\ calls' = [calls EXCEPT
       ![h].piped = Append(@, Head(c.passThrough)),
       ![h].passThrough = Tail(@)]
  /\ UNCHANGED <<constructorOptions, options, redirectCount>>

\* `new Request(constructorOptions)` of a caller that follows no redirect.
DecodeInit ==
  /\ \E co \in {c \in ConstructorOptions :
                  /\ ~BodyNotAllowed(c)
                  /\ ~c.followRedirect
                  /\ c.maxRedirectCount = 0
                  /\ c.timeout = 0} :
       /\ options = getRequestOptions(co)
       /\ constructorOptions = Seen(co, options)
  /\ redirectCount = 0
  /\ calls = <<>>

DecodeNext ==
  \/ Send
  \/ \E h \in 1..Len(calls) : ServerRespondFinal(h)
  \/ \E h \in 1..Len(calls) : OnResponse(h)
  \/ \E h \in 1..Len(calls) : OnData(h)
  \/ \E h \in 1..Len(calls) : OnPipe(h)
  \/ \E h \in 1..Len(calls) : OnEnd(h)

DecodeSpec == DecodeInit /\ [][DecodeNext]_vars

\* ------------------------------------------------------------ the resolver
\* Constructor options callers write: methods in several letter cases,
\* text bodies (the empty one too), a Buffer body (written as its
\* inspection string), header names in several letter cases, a URL
\* without host.
ResolveMethods ==
  {"GET", "get", "Get", "HEAD", "head", "hEaD", "POST", "post", "PUT"}
ResolveBodies == {Null, "", "data", "<Buffer 64 61 74 61>"}
ResolveHeaderSets ==
  { [n \in {} |-> ""],
    "content-length" :> "4",
    "Content-Length" :> "4",
    "Accept" :> "text/html",
    "accept-encoding" :> "identity",
    "ACCEPT-ENCODING" :> "identity",
    "Connection" :> "keep-alive",
    "content-type" :> "application/json",
    "Content-Type" :> "application/json",
    "Accept" :> "text/html" @@ "ACCEPT-ENCODING" :> "identity"
      @@ "Content-Length" :> "4" }

Queries ==
  { <<>>,
    << [key |-> <<"a">>, value |-> <<"1">>] >>,
    << [key |-> <<"a", " ", "b">>, value |-> <<"x", "&", "y">>] >>,
    << [key |-> <<"a">>, value |-> <<"5", "0", "%">>],
       [key |-> <<"b">>, value |-> <<"x", "=", "y">>] >> }

ResolveInputs ==
  [ method : ResolveMethods,
    body : ResolveBodies,
    headers : ResolveHeaderSets,
    requestURL : {[host |-> "a", path |-> "/", search |-> <<>>], NoURL},
    query : Queries,
    followRedirect : {TRUE},
    maxRedirectCount : {0},
    timeout : {0} ]

\* `options` holds constructor options, not yet resolved.
Unresolved(o) == "parsedURL" \notin DOMAIN o /\ "error" \notin DOMAIN o
\* `options` holds the options of a constructed instance.
Constructed(o) == "parsedURL" \in DOMAIN o

ResolveInit ==
  /\ options \in ResolveInputs
  /\ constructorOptions = options
  /\ redirectCount = 0
  /\ calls = <<>>

\* new Request(options)
Construct ==
  /\ Unresolved(options)
  /\ options' = NewRequest(options)
  /\ constructorOptions' = Seen(constructorOptions, options')
  /\ UNCHANGED <<redirectCount, calls>>

\* Request.send() on the constructed instance.
SendConstructed ==
  /\ Constructed(options)
  /\ Send

ResolveNext ==
  \/ Construct
  \/ SendConstructed

ResolveSpec == ResolveInit /\ [][ResolveNext]_vars

\* ------------------------------------------------- the instance's life
\* One Request instance from `new Request` on: the caller constructs it,
\* calls send(), and calls send() on the same instance once more after the
\* first send() has settled.
\* The promise send() returned to the caller, through the promises it was
\* resolved with.
RECURSIVE outcome(_, _)
outcome(cs, h) ==
  IF cs[h].promise.st = "follows" /\ cs[h].promise.next \in 1..Len(cs)
  THEN outcome(cs, cs[h].promise.next)
  ELSE cs[h].promise

LifeInputs ==
  [ method : {"GET", "post"},
    body : {Null, "data"},
    headers : UserHeaders,
    requestURL : {[host |-> "a", path |-> "/", search |-> <<>>]},
    query : {<<>>, << [key |-> <<"a">>, value |-> <<"1">>] >>},
    followRedirect : BOOLEAN,
    maxRedirectCount : 0..MaxRedirectLimit,
    timeout : {0} ]

LifeInit ==
  /\ options \in LifeInputs
  /\ constructorOptions = options
  /\ redirectCount = 0
  /\ calls = <<>>

\* The first send() has fulfilled or rejected.
Settled ==
  /\ calls # <<>>
  /\ outcome(calls, 1).st \in {"fulfilled", "rejected"}

\* Request.send() once more on the same instance: this.client.send() runs
\* on the client's options and redirectCount as they are.
SendAgain ==
  /\ Settled
  /\ ~InTurn
  /\ Len(calls) < MaxRequests
  /\ calls' = Append(calls, send(options))
  /\ UNCHANGED <<constructorOptions, options, redirectCount>>

LifeNext ==
  \/ Construct
  \/ SendConstructed
  \/ \E h \in 1..Len(calls) : ServerRespond(h)
  \/ \E h \in 1..Len(calls) : OnResponse(h)
  \/ SendAgain

LifeSpec == LifeInit /\ [][LifeNext]_vars

\* ------------------------------------------------------ the legacy client
\* The earlier Request class: `options` holds its fields, `calls` one
\* record per invocation of its send().
LegacyStatuses == {200, 301, 302, 303, 404}
LegacyResponses ==
  [statusCode : LegacyStatuses, location : Locations, codings : Codings]

\* new Request(url, method)
LegacyInit ==
  /\ options \in [ url : {[host |-> "a", path |-> "/", search |-> <<>>]},
                    method : {"get", "post"},
                    redirectEnabled : {FALSE},
                    compressionEnabled : {FALSE} ]
  /\ constructorOptions = options
  /\ redirectCount = 0
  /\ calls = <<>>

\* redirect()
LegacyRedirect ==
  /\ calls = <<>>
  /\ ~options.redirectEnabled
  /\ options' = [options EXCEPT !.redirectEnabled = TRUE]
  /\ UNCHANGED <<constructorOptions, redirectCount, calls>>

\* compress()
LegacyCompress ==
  /\ calls = <<>>
  /\ ~options.compressionEnabled
  /\ options' = [options EXCEPT !.compressionEnabled = TRUE]
  /\ UNCHANGED <<constructorOptions, redirectCount, calls>>

\* The request send() opens: http.RequestOptions of this.url and
\* this.method.toUpperCase().
LegacyCall(o) ==
  [ method |-> toUpperCase(o.method), url |-> o.url, stage |-> "awaiting",
    res |-> NoRes, promise |-> Pending ]

\* send(), called by the caller.
LegacySend ==
  /\ calls = <<>>
  /\ calls' = <<LegacyCall(options)>>
  /\ UNCHANGED <<constructorOptions, options, redirectCount>>

\* if (res.headers.location && this.redirectEnabled)
LegacyShouldFollow(res, redirectEnabled) ==
  res.location.kind # "none" /\ redirectEnabled

\* res.pipe(zlib.createGunzip()) / res.pipe(zlib.createInflate()) / res
LegacyStream(res, compressionEnabled) ==
  IF compressionEnabled /\ res.codings = "gzip" THEN "gunzip"
  ELSE IF compressionEnabled /\ res.codings = "deflate" THEN "inflate"
  ELSE "identity"

\* The response callback of call h.
LegacyOnResponse(h) ==
  /\ calls[h].stage = "awaiting"
  /\ \E res \in LegacyResponses :
       /\ Len(calls) >= MaxRequests
            => ~LegacyShouldFollow(res, options.redirectEnabled)
       /\ IF LegacyShouldFollow(res, options.redirectEnabled)
          THEN
            LET o == [options EXCEPT !.url = ResolveURL(res.location, @)] IN
            /\ options' = o
            \* this.send().then(resolve).catch(reject)
            /\ calls' = Append(
                 [calls EXCEPT ![h].stage = "responded", ![h].res = res,
                               ![h].promise = resolveWith(@, Len(calls) + 1)],
                 LegacyCall(o))
          ELSE
            /\ calls' = [calls EXCEPT
                 ![h].stage = "responded", ![h].res = res,
                 ![h].promise =
                   resolve(@, ResponseImpl(
                                LegacyStream(res, options.compressionEnabled),
                                calls[h].url, res))]
            /\ UNCHANGED options
  /\ UNCHANGED <<constructorOptions, redirectCount>>

LegacyNext ==
  \/ LegacyRedirect
  \/ LegacyCompress
  \/ LegacySend
  \/ \E h \in 1..Len(calls) : LegacyOnResponse(h)

LegacySpec == LegacyInit /\ [][LegacyNext]_vars

\* ================================================================ claims
\* The response event of call h is being dispatched to its handler.
Handling(h) == calls[h].stage = "response"

\* The response being dispatched to call h is a redirect to be followed.
Followed(h) ==
  isRedirect(calls[h].res.statusCode) /\ options.followRedirect

\* The handler of call h opened one more request.
OpenedNext == Len(calls') = Len(calls) + 1

NextCall == calls'[Len(calls')]

\* C1: with maxRedirectCount = N > 0 the redirect-limit failure is terminal,
\* so one send() opens at most N + 1 transport requests.
C1_AtMostNPlusOneRequests ==
  options.maxRedirectCount > 0 => Len(calls) <= options.maxRedirectCount + 1

\* C2: with maxRedirectCount = 0 and followRedirect, the first redirect
\* response rejects send() with the redirect-limit error and no second
\* request is opened.
C2_ZeroNeverFollows ==
  [][ ( /\ options.maxRedirectCount = 0
        /\ Len(calls) = 1
        /\ Handling(1)
        /\ Followed(1) )
      => ( /\ Len(calls') = 1
           /\ calls'[1].promise.st = "rejected"
           /\ calls'[1].promise.err = RedirectLimitError(options.requestURL) )
    ]_vars

\* C3: a redirect that would be followed but has no Location header rejects
\* send() with the missing-location error, and neither advances the hop
\* counter nor opens a next-hop request.
C3_MissingLocationTerminal ==
  [][ \A h \in 1..Len(calls) :
        ( /\ Handling(h)
          /\ Followed(h)
          /\ ~(options.maxRedirectCount > 0
               /\ redirectCount >= options.maxRedirectCount)
          /\ calls[h].res.location = NoLocation )
        => ( /\ calls'[h].promise.st = "rejected"
             /\ calls'[h].promise.err = MissingLocationError(options.requestURL)
             /\ redirectCount' = redirectCount
             /\ Len(calls') = Len(calls) )
    ]_vars

\* C4: whatever the method, a followed 303 makes the next hop a GET without
\* body and without a content-length header.
C4_SeeOtherRewritesToGet ==
  [][ \A h \in 1..Len(calls) :
        (Handling(h) /\ Followed(h) /\ calls[h].res.statusCode = 303)
        => ( /\ OpenedNext
             /\ NextCall.method = "GET"
             /\ NextCall.body = Null
             /\ CONTENT_LENGTH \notin DOMAIN NextCall.headers
             /\ options'.method = "GET"
             /\ options'.body = Null )
    ]_vars

\* C4 witness: a PUT with a body was answered 303 and the next hop is a
\* bodiless GET.
C4_Witness ==
  \E h \in 1..Len(calls) :
    /\ h < Len(calls)
    /\ calls[h].stage = "responded"
    /\ calls[h].res.statusCode = 303
    /\ calls[h].method = "PUT"
    /\ calls[h].body = "data"
    /\ calls[h + 1].method = "GET"
    /\ calls[h + 1].body = Null

\* C5 as claimed: a followed 301 or 302 to any write method (POST, PUT, ...)
\* makes the next hop a GET without body and without content-length.
C5_WriteMethodsRewritten ==
  [][ \A h \in 1..Len(calls) :
        ( /\ Handling(h)
          /\ Followed(h)
          /\ calls[h].res.statusCode \in {301, 302}
          /\ calls[h].method \notin {"GET", "HEAD"} )
        => ( /\ OpenedNext
             /\ NextCall.method = "GET"
             /\ NextCall.body = Null
             /\ CONTENT_LENGTH \notin DOMAIN NextCall.headers )
    ]_vars

\* C5 amended: a followed 301 or 302 to a POST makes the next hop a GET
\* without body and without content-length; to any other method (PUT
\* included) it keeps the method and the body.
C5_OnlyPostRewritten ==
  [][ \A h \in 1..Len(calls) :
        ( /\ Handling(h)
          /\ Followed(h)
          /\ calls[h].res.statusCode \in {301, 302} )
        => /\ OpenedNext
           /\ CONTENT_LENGTH \notin DOMAIN NextCall.headers
           /\ IF calls[h].method = "POST"
              THEN NextCall.method = "GET" /\ NextCall.body = Null
              ELSE NextCall.method = calls[h].method
                   /\ NextCall.body = calls[h].body
    ]_vars

\* C5 witness: a POST with a body was answered 302 and the next hop is a
\* bodiless GET.
C5_Witness ==
  \E h \in 1..Len(calls) :
    /\ h < Len(calls)
    /\ calls[h].stage = "responded"
    /\ calls[h].res.statusCode = 302
    /\ calls[h].method = "POST"
    /\ calls[h].body = "data"
    /\ calls[h + 1].method = "GET"
    /\ calls[h + 1].body = Null

\* C6: a followed 307 / 308 (any method) and a followed 301 / 302 to GET or
\* HEAD keep method, body and headers; only parsedURL and the hop counter
\* change.
C6_MethodPreserved ==
  [][ \A h \in 1..Len(calls) :
        ( /\ Handling(h)
          /\ Followed(h)
          /\ \/ calls[h].res.statusCode \in {307, 308}
             \/ /\ calls[h].res.statusCode \in {301, 302}
                /\ calls[h].method \in {"GET", "HEAD"} )
        => ( /\ OpenedNext
             /\ NextCall.method = calls[h].method
             /\ NextCall.body = calls[h].body
             /\ NextCall.headers = calls[h].headers
             /\ options' = [options EXCEPT !.parsedURL = options'.parsedURL]
             /\ NextCall.parsedURL = options'.parsedURL
             /\ redirectCount' = redirectCount + 1 )
    ]_vars

\* C6 witness: a POST with a body was answered 307 and went out again as a
\* POST with the same body to another URL.
C6_Witness ==
  \E h \in 1..Len(calls) :
    /\ h < Len(calls)
    /\ calls[h].stage = "responded"
    /\ calls[h].res.statusCode = 307
    /\ calls[h].method = "POST"
    /\ calls[h].body = "data"
    /\ calls[h + 1].method = "POST"
    /\ calls[h + 1].body = "data"
    /\ calls[h + 1].parsedURL # calls[h].parsedURL

\* C7: the hop counter is 0 until the first redirect is followed, always
\* equals the number of requests opened minus one, and changes only by +1
\* in the handling of a followed redirect.
C7_HopCounter ==
  /\ [](redirectCount = IF calls = <<>> THEN 0 ELSE Len(calls) - 1)
  /\ [][ redirectCount' # redirectCount
         => /\ redirectCount' = redirectCount + 1
            /\ \E h \in 1..Len(calls) : Handling(h) /\ Followed(h)
       ]_vars

\* C7 witness: one 302 followed by a 200: send() is fulfilled with the 200
\* and the hop counter is 1.
C7_Witness ==
  /\ Len(calls) = 2
  /\ calls[1].res.statusCode = 302
  /\ outcome(calls, 1).st = "fulfilled"
  /\ outcome(calls, 1).resp.statusCode = 200
  /\ redirectCount = 1

\* C8: a request is opened by a response handler only for a redirect status
\* with followRedirect; every other response opens no request and resolves
\* its send() with a Response of that status (at once, or for a deflate
\* body when its first chunk arrives); no send() is ever fulfilled with
\* another status or with a followed redirect.
C8_OnlyRedirectsOpenHops ==
  [][ /\ (calls # <<>> /\ Len(calls') > Len(calls))
         => \E h \in 1..Len(calls) : Handling(h) /\ Followed(h)
      /\ \A h \in 1..Len(calls) :
           /\ (Handling(h) /\ ~Followed(h))
              => /\ Len(calls') = Len(calls)
                 /\ \/ calls'[h].promise.st = "fulfilled"
                    \/ /\ calls[h].res.codings = "deflate"
                       /\ calls'[h].stage = "sniff"
                       /\ calls'[h].promise.st = "pending"
           /\ (calls[h].promise.st # "fulfilled"
               /\ calls'[h].promise.st = "fulfilled")
              => /\ calls'[h].promise.resp.statusCode = calls[h].res.statusCode
                 /\ ~Followed(h)
    ]_vars

\* C8 witness: followRedirect is off and send() was fulfilled with the 302
\* itself, one request opened.
C8_Witness ==
  /\ ~options.followRedirect
  /\ Len(calls) = 1
  /\ calls[1].promise.st = "fulfilled"
  /\ calls[1].promise.resp.statusCode = 302

\* C9: after a followed redirect the Response send() resolves with carries
\* the URL, the status and the headers of the hop that produced it.
C9_ResponseCarriesLastHop ==
  \A h \in 1..Len(calls) :
    ( /\ h > 1
      /\ calls[h].promise.st = "fulfilled"
      /\ calls[h].conn = "open" )
    => /\ calls[h].promise.resp.requestURL = calls[h].parsedURL
       /\ calls[h].promise.resp.statusCode = calls[h].res.statusCode
       /\ calls[h].promise.resp.location = calls[h].res.location
       /\ calls[h].promise.resp.codings = calls[h].res.codings

\* C10: a pipeline holds at most one live transport connection at any time.
C10_OneLiveConnection ==
  Cardinality({h \in 1..Len(calls) : calls[h].conn = "open"}) <= 1

\* C11: redirect hops are strictly sequential: a request is opened by a
\* response handler only for the newest request, once its response event
\* was received and classified as a followed redirect; every older request
\* has had its response; one response event opens at most one request.
C11_HopsSequential ==
  /\ [](\A j \in 1..Len(calls) :
          j < Len(calls) => calls[j].stage \in {"sniff", "responded"})
  /\ [][ /\ Len(calls') <= Len(calls) + 1
         /\ (calls # <<>> /\ Len(calls') > Len(calls))
            => /\ Handling(Len(calls))
               /\ Followed(Len(calls))
               /\ \A j \in 1..Len(calls) : calls'[j].stage # "awaiting"
       ]_vars

\* C11 witness: two redirects were followed one after the other; the third
\* request is in flight and both earlier ones have had their response.
C11_Witness ==
  /\ Len(calls) = 3
  /\ calls[1].stage = "responded"
  /\ calls[2].stage = "responded"
  /\ calls[3].stage = "awaiting"
  /\ calls[3].conn = "open"
  /\ redirectCount = 2

\* C12: with timeout > 0 every hop's request has the deadline armed, and a
\* deadline that passes before the hop's response arrived destroys that
\* request and rejects the hop's send() with the timeout error, and through
\* it the caller's send() as long as that had not failed before; with
\* timeout = 0 no hop has a deadline and nothing ever fails with the
\* timeout error.
C12_TimeoutFails ==
  /\ [](\A h \in 1..Len(calls) : calls[h].timer <=> options.timeout > 0)
  /\ [](options.timeout = 0
          => \A h \in 1..Len(calls) :
               /\ ~ENABLED OnTimeout(h)
               /\ calls[h].promise.err # TimeoutError)
  /\ [][ \A h \in 1..Len(calls) :
           (calls[h].stage = "awaiting" /\ OnTimeout(h))
           => /\ options.timeout > 0
              /\ calls'[h].conn = "destroyed"
              /\ calls'[h].promise.st = "rejected"
              /\ calls'[h].promise.err = TimeoutError
              /\ outcome(calls, 1).st = "pending"
                 => /\ outcome(calls', 1).st = "rejected"
                    /\ outcome(calls', 1).err = TimeoutError
       ]_vars

\* C12 witness: a redirect was followed, the second hop got no response in
\* time, its request is destroyed and the caller's send() is rejected with
\* the timeout error.
C12_Witness ==
  /\ options.timeout > 0
  /\ Len(calls) = 2
  /\ calls[2].stage = "awaiting"
  /\ calls[2].conn = "destroyed"
  /\ calls[2].promise.err = TimeoutError
  /\ outcome(calls, 1).st = "rejected"
  /\ outcome(calls, 1).err = TimeoutError

\* C13: an 'error' event on the newest hop's request while the caller's
\* send() is still pending (no response or failure has settled it)
\* destroys that request and rejects the hop's send() and the caller's
\* send(), through the chain of a followed redirect, with the error of the
\* event; an 'abort' event does the same with the abort error.
C13_ErrorFailsSend ==
  [][ \A h \in 1..Len(calls) :
        /\ (h = Len(calls) /\ outcome(calls, 1).st = "pending" /\ OnError(h))
           => /\ calls'[h].conn = "destroyed"
              /\ calls'[h].promise.st = "rejected"
              /\ calls'[h].promise.err = TransportError
              /\ outcome(calls', 1).st = "rejected"
              /\ outcome(calls', 1).err = TransportError
        /\ (h = Len(calls) /\ outcome(calls, 1).st = "pending" /\ OnAbort(h))
           => /\ calls'[h].conn = "destroyed"
              /\ calls'[h].promise.st = "rejected"
              /\ calls'[h].promise.err = AbortError
              /\ outcome(calls', 1).st = "rejected"
              /\ outcome(calls', 1).err = AbortError
    ]_vars

\* C13 witness: a redirect was followed and the second hop's request had a
\* transport error before any response: it is destroyed and the caller's
\* send(), which follows the second hop's, is rejected with that error.
C13_Witness ==
  /\ Len(calls) = 2
  /\ calls[1].promise.st = "follows"
  /\ calls[2].stage = "awaiting"
  /\ calls[2].conn = "destroyed"
  /\ calls[2].promise.err = TransportError
  /\ outcome(calls, 1).st = "rejected"
  /\ outcome(calls, 1).err = TransportError

\* C14: a 'cancel-request' raised on the body stream of a Response destroys
\* the request that produced it, whatever the content-encoding was (also
\* when the body is a gunzip, brotli or inflate transform).
C14_CancelDestroysRequest ==
  [][ \A h \in 1..Len(calls) :
        (~calls[h].cancelled /\ calls'[h].cancelled)
        => calls'[h].conn = "destroyed"
    ]_vars

\* C15: a decompression transform is attached only when the method is not
\* HEAD, a content-encoding header is present and the status is neither 204
\* nor 304; in every other case the Response gets the body as it came.
C15_DecodeOnlyWhenAllThree ==
  \A h \in 1..Len(calls) :
    (calls[h].conn = "open" /\ calls[h].stage \in {"sniff", "responded"})
    => \/ /\ calls[h].method # "HEAD"
          /\ calls[h].res.codings # Null
          /\ calls[h].res.statusCode \notin {204, 304}
       \/ /\ calls[h].promise.st = "fulfilled"
          /\ calls[h].promise.resp.transform = "identity"

\* C15 witness: a GET answered 204 with content-encoding gzip resolved with
\* the body passed through.
C15_Witness ==
  \E h \in 1..Len(calls) :
    /\ calls[h].method = "GET"
    /\ calls[h].res.statusCode = 204
    /\ calls[h].res.codings = "gzip"
    /\ calls[h].promise.st = "fulfilled"
    /\ calls[h].promise.resp.transform = "identity"

\* C16: where decoding applies, the transform is picked by exact,
\* case-sensitive match of the content-encoding value: gzip and x-gzip ->
\* gunzip, br -> brotli, deflate and x-deflate -> the sniffed inflate
\* variant, any other value (another letter case, a token list, an unknown
\* token) -> identity.
C16_TransformTable ==
  \A h \in 1..Len(calls) :
    ( /\ calls[h].conn = "open"
      /\ calls[h].promise.st = "fulfilled"
      /\ calls[h].method # "HEAD"
      /\ calls[h].res.codings # Null
      /\ calls[h].res.statusCode \notin {204, 304} )
    => LET codings == calls[h].res.codings
           transform == calls[h].promise.resp.transform
       IN CASE codings \in {"gzip", "x-gzip"} -> transform = "gunzip"
            [] codings = "br" -> transform = "brotli"
            [] codings \in {"deflate", "x-deflate"} ->
                 transform \in {"inflate", "inflateRaw"}
            [] OTHER -> transform = "identity"

\* C16 witness: a GET answered 200 with content-encoding GZIP (upper case)
\* resolved with the body passed through.
C16_Witness ==
  \E h \in 1..Len(calls) :
    /\ calls[h].method = "GET"
    /\ calls[h].res.statusCode = 200
    /\ calls[h].res.codings = "GZIP"
    /\ calls[h].promise.st = "fulfilled"
    /\ calls[h].promise.resp.transform = "identity"

\* C17: for a deflate / x-deflate body the Response is resolved when the
\* first chunk arrives, with zlib inflate if the low nibble of its first
\* byte is 8 and raw inflate otherwise; the transform gets nothing before
\* that, and then every chunk `res` emitted, the first one included, once
\* and in order.
C17_DeflateSniff ==
  \A h \in 1..Len(calls) :
    ( /\ calls[h].conn = "open"
      /\ calls[h].stage \in {"sniff", "responded"}
      /\ calls[h].method # "HEAD"
      /\ calls[h].res.codings \in {"deflate", "x-deflate"}
      /\ calls[h].res.statusCode \notin {204, 304} )
    => /\ calls[h].piped \o calls[h].passThrough = calls[h].wire
       /\ calls[h].promise.st = "fulfilled" <=> calls[h].wire # <<>>
       /\ calls[h].promise.st # "fulfilled" => calls[h].piped = <<>>
       /\ calls[h].promise.st = "fulfilled"
          => calls[h].promise.resp.transform =
               IF calls[h].wire[1][1] % 16 = 8 THEN "inflate"
               ELSE "inflateRaw"

\* C17 witness: an x-deflate body whose first byte is 0x78 arrived in two
\* chunks; zlib inflate was chosen and has received both chunks in order.
C17_Witness ==
  \E h \in 1..Len(calls) :
    /\ calls[h].res.codings = "x-deflate"
    /\ calls[h].wire = << <<120, 156>>, <<2>> >>
    /\ calls[h].piped = calls[h].wire
    /\ calls[h].promise.st = "fulfilled"
    /\ calls[h].promise.resp.transform = "inflate"

\* C18: constructor options with a body other than null (the empty string
\* included) and method GET or HEAD in any letter case fail with the body
\* validation error, also when the URL is invalid (the check comes before
\* the URL is parsed), and no transport request is ever opened after a
\* failed resolution.
C18_BodyWithGetOrHeadFails ==
  /\ []("error" \in DOMAIN options => calls = <<>>)
  /\ [][ ( /\ Construct
           /\ options.body # Null
           /\ options.method \in {"GET", "get", "Get", "HEAD", "head", "hEaD"} )
         => /\ options' = BodyTypeError
            /\ ~Constructed(options')
            /\ calls' = <<>>
       ]_vars

\* C18 witness: a resolution failed with the body validation error and no
\* request was opened.
C18_Witness ==
  /\ options = BodyTypeError
  /\ calls = <<>>

\* C19: the resolved header set has no content-length, has accept-encoding
\* equal to the supported compressions whatever the caller gave, has the
\* caller's accept or else '*/*', and the caller's connection or else
\* 'close'; the caller's names are matched in any letter case.
C19_ResolvedHeaders ==
  [][ (Construct /\ Constructed(options'))
      => LET user == options.headers
             h == options'.headers
             given(names) == (DOMAIN user) \cap names
             value(names) == user[CHOOSE k \in given(names) : TRUE]
         IN /\ DOMAIN h \cap {"content-length", "Content-Length",
                              "CONTENT-LENGTH"} = {}
            /\ DOMAIN h \cap {"Accept", "ACCEPT", "Accept-Encoding",
                              "ACCEPT-ENCODING", "Connection", "CONNECTION"} = {}
            /\ h["accept-encoding"] = "gzip,deflate,br"
            /\ h["accept"] =
                 IF given({"accept", "Accept", "ACCEPT"}) # {}
                 THEN value({"accept", "Accept", "ACCEPT"}) ELSE "*/*"
            /\ h["connection"] =
                 IF given({"connection", "Connection", "CONNECTION"}) # {}
                 THEN value({"connection", "Connection", "CONNECTION"})
                 ELSE "close"
    ]_vars

\* C19 witness: the caller gave Accept, ACCEPT-ENCODING and Content-Length;
\* the instance has the caller's accept, the supported compressions,
\* connection close and no content-length.
C19_Witness ==
  /\ Constructed(options)
  /\ options.headers["accept"] = "text/html"
  /\ options.headers["accept-encoding"] = "gzip,deflate,br"
  /\ options.headers["connection"] = "close"
  /\ "content-length" \notin DOMAIN options.headers

\* C20: a content-type header is added exactly when the body is not null,
\* the caller gave no content-type and the body is a string (the empty
\* string included), and then it is the text content-type; the caller's
\* content-type is kept and a Buffer body gets none.
C20_ContentTypeForText ==
  [][ (Construct /\ Constructed(options'))
      => LET user == options.headers
             h == options'.headers
             names == {"content-type", "Content-Type", "CONTENT-TYPE"}
             given == (DOMAIN user) \cap names
         IN IF given # {}
            THEN h["content-type"] = user[CHOOSE k \in given : TRUE]
            ELSE IF options.body \in {"", "data"}
            THEN /\ "content-type" \in DOMAIN h
                 /\ h["content-type"] = "text/plain;charset=UTF-8"
            ELSE "content-type" \notin DOMAIN h
    ]_vars

\* What a reader of the query string gets back from an encoded name or
\* value: '+' is a space, %XX is the character of that code.
RECURSIVE urldecoded(_)
urldecoded(str) ==
  IF str = <<>> THEN <<>>
  ELSE IF Head(str) = "+" THEN <<" ">> \o urldecoded(Tail(str))
  ELSE IF Head(str) = "%" /\ Len(str) >= 3
  THEN (CASE <<str[2], str[3]>> = <<"2", "0">> -> <<" ">>
          [] <<str[2], str[3]>> = <<"2", "5">> -> <<"%">>
          [] <<str[2], str[3]>> = <<"2", "6">> -> <<"&">>
          [] <<str[2], str[3]>> = <<"2", "B">> -> <<"+">>
          [] <<str[2], str[3]>> = <<"3", "D">> -> <<"=">>
          [] OTHER -> <<"?">>)
       \o urldecoded(SubSeq(str, 4, Len(str)))
  ELSE <<Head(str)>> \o urldecoded(Tail(str))

\* C21: every key and value of the query ends up in the URL's query
\* string encoded exactly once: no reserved character is left raw, and
\* decoding the entry once gives back the caller's key and value.
C21_QueryEncodedOnce ==
  [][ (Construct /\ Constructed(options'))
      => LET query == options.query
             search == options'.parsedURL.search
         IN /\ Len(search) = Len(query)
            /\ \A i \in 1..Len(query) :
                 /\ urldecoded(search[i].name) = query[i].key
                 /\ urldecoded(search[i].value) = query[i].value
                 /\ \A j \in 1..Len(search[i].name) :
                      search[i].name[j] \notin {" ", "&", "="}
                 /\ \A j \in 1..Len(search[i].value) :
                      search[i].value[j] \notin {" ", "&", "="}
    ]_vars

\* C22: a followed redirect resolves its Location against the URL of the
\* hop that received it: an absolute Location replaces the URL, a relative
\* one keeps the host of the hop that received it, whatever the length of
\* the chain.
C22_LocationAgainstCurrentHop ==
  [][ \A h \in 1..Len(calls) :
        (/\ Handling(h) /\ Followed(h)
         /\ calls[h].res.location.kind \in {"url", "path"}
         /\ OnResponse(h))
        => /\ OpenedNext
           /\ NextCall.parsedURL.path = calls[h].res.location.path
           /\ NextCall.parsedURL.host =
                IF calls[h].res.location.kind = "url"
                THEN calls[h].res.location.host
                ELSE calls[h].parsedURL.host
           /\ options'.parsedURL = NextCall.parsedURL
    ]_vars

\* C22 witness: the first hop (host a) was redirected to an absolute URL on
\* host b, the second hop to a relative reference, and the third request
\* goes to host b.
C22_Witness ==
  /\ Len(calls) = 3
  /\ options.requestURL.host = "a"
  /\ calls[1].stage = "responded" /\ calls[1].res.location.kind = "url"
  /\ calls[2].stage = "responded" /\ calls[2].res.location.kind = "path"
  /\ calls[2].parsedURL.host = "b"
  /\ calls[3].parsedURL = [host |-> "b", path |-> "/x", search |-> <<>>]
  /\ calls[3].conn = "open"

\* C23: the object the caller passed to `new Request` is never modified:
\* neither the resolver nor a redirect rewrite writes to it or to its
\* headers.
C23_CallerOptionsUntouched ==
  [][constructorOptions' = constructorOptions]_vars

\* C23 witness: the instance was constructed from options with a
\* content-length header and a redirect has rewritten method, body, headers
\* and URL of the client's options, which now differ from the caller's.
C23_Witness ==
  /\ Constructed(options)
  /\ redirectCount = 1
  /\ constructorOptions.method = "post" /\ options.method = GET
  /\ constructorOptions.body = "data" /\ options.body = Null
  /\ HeadersHas(constructorOptions.headers, CONTENT_LENGTH)
  /\ ~HeadersHas(options.headers, CONTENT_LENGTH)
  /\ options.parsedURL.host = "b"
  /\ constructorOptions.requestURL.host = "a"

C25_LegacyFollowsOnly301And302 ==
  \A h \in 1..Len(calls) :
    h < Len(calls) => calls[h].res.statusCode \in {301, 302}

\* C26: a send() on an instance whose first send() has settled starts from
\* the state the resolver produced: hop count 0 and the method, body,
\* headers and URL resolved from the constructor options, never the ones a
\* redirect of the first send() left behind.
C26_SecondSendStartsFresh ==
  [][ SendAgain
      => LET fresh == getRequestOptions(constructorOptions) IN
         /\ redirectCount' = 0
         /\ NextCall.method = fresh.method
         /\ NextCall.body = fresh.body
         /\ NextCall.headers = HeadersRaw(fresh.headers)
         /\ NextCall.parsedURL = fresh.parsedURL
    ]_vars

\* C27: send() settles in the end whatever the status, content-encoding
\* and body of the response: as long as the promise send() returned is
\* pending, some step of the pipeline is still possible.
C27_PendingCanProgress ==
  (calls # <<>> /\ outcome(calls, 1).st = "pending") => ENABLED Next

\* C28: the send() of a hop whose redirect was followed never fulfils with
\* a Response of its own (the handler's later resolveResponse has no
\* effect): it follows the send() of the next hop, so a fulfilled send()
\* of the caller holds the Response the last hop resolved with.
C28_NoIntermediateResponse ==
  /\ \A h \in 1..Len(calls) :
       h < Len(calls)
       => /\ calls[h].promise.st # "fulfilled"
          /\ calls[h].promise.st = "follows" => calls[h].promise.next = h + 1
  /\ (calls # <<>> /\ outcome(calls, 1).st = "fulfilled")
     => /\ outcome(calls, 1) = calls[Len(calls)].promise
        /\ ~(options.followRedirect
             /\ isRedirect(outcome(calls, 1).resp.statusCode))

\* C28 witness: a 302 was followed, its handler ran to the end, and the
\* caller's send() is fulfilled with the 200 of the second hop.
C28_Witness ==
  /\ Len(calls) = 2
  /\ calls[1].stage = "responded"
  /\ calls[1].res.statusCode = 302
  /\ calls[1].promise.st = "follows"
  /\ calls[2].promise.st = "fulfilled"
  /\ outcome(calls, 1).st = "fulfilled"
  /\ outcome(calls, 1).resp.statusCode = 200

\* C29: an error, abort or timeout event on the request of a hop that has
\* been superseded (a later hop's request exists) destroys that hop's
\* request and no other, and leaves the outcome of the caller's send() as
\* it was.
C29_LateEventStaysLocal ==
  [][ \A h \in 1..Len(calls) :
        (/\ h < Len(calls)
         /\ calls[h].conn = "open"
         /\ (OnError(h) \/ OnAbort(h) \/ OnTimeout(h)))
        => /\ calls'[h].conn = "destroyed"
           /\ \A k \in 1..Len(calls) : k # h => calls'[k] = calls[k]
           /\ Len(calls') = Len(calls)
           /\ outcome(calls', 1) = outcome(calls, 1)
    ]_vars

\* C29 witness: the first hop's redirect was followed, then an event on
\* the first hop's request destroyed it; the second hop's request is open
\* and the caller's send() still follows it.
C29_Witness ==
  /\ Len(calls) = 2
  /\ calls[1].stage = "responded"
  /\ calls[1].promise.st = "follows"
  /\ calls[1].conn = "destroyed"
  /\ calls[2].conn = "open"
  /\ outcome(calls, 1) = calls[2].promise

====
